---------------------------- MODULE Spec2Model ----------------------------
(***************************************************************************)
(* Model of virttest/libvirt_cgroup.py: the CgroupTest class that reads    *)
(* the cgroup state of a VM (cgroup v1 or v2) and the matching virsh       *)
(* report and standardizes both to dicts.                                  *)
(*                                                                         *)
(* Python strings are TLA+ strings (Len, SubSeq and \o work on them).      *)
(* A Python dict is a function whose domain is its key set; where the code *)
(* iterates over a dict the model iterates over its insertion order.       *)
(* None is the string PyNone, which no file or report text can contain.    *)
(***************************************************************************)
EXTENDS Integers, Sequences, FiniteSets, TLC

PyNone == "<None>"

(***************************************************************************)
(* Python string primitives                                                *)
(***************************************************************************)
Char(s, i) == SubSeq(s, i, i)

IsSpace(c) == c \in {" ", "\n", "\t"}

Digits == <<"0", "1", "2", "3", "4", "5", "6", "7", "8", "9">>

DigitVal == [c \in {Digits[d] : d \in 1..10} |-> (CHOOSE d \in 1..10 : Digits[d] = c) - 1]

IsDigitChar(c) == c \in DOMAIN DigitVal

RECURSIVE FindFrom(_, _, _)
\* index of the first occurrence of sub in s at or after i, 0 when there is none
FindFrom(s, sub, i) ==
    IF i + Len(sub) - 1 > Len(s) THEN 0
    ELSE IF SubSeq(s, i, i + Len(sub) - 1) = sub THEN i
    ELSE FindFrom(s, sub, i + 1)

\* str.find(sub) + 1
Find(s, sub) == FindFrom(s, sub, 1)

\* sub in s
Contains(s, sub) ==
    \E i \in 1..(Len(s) - Len(sub) + 1) : SubSeq(s, i, i + Len(sub) - 1) = sub

RECURSIVE LStrip(_)
LStrip(s) ==
    IF Len(s) > 0 /\ IsSpace(Char(s, 1)) THEN LStrip(SubSeq(s, 2, Len(s))) ELSE s

RECURSIVE RStrip(_)
RStrip(s) ==
    IF Len(s) > 0 /\ IsSpace(Char(s, Len(s)))
    THEN RStrip(SubSeq(s, 1, Len(s) - 1)) ELSE s

\* str.strip()
Strip(s) == RStrip(LStrip(s))

RECURSIVE StripSlash(_)
\* str.strip("/")
StripSlash(s) ==
    IF Len(s) > 0 /\ Char(s, 1) = "/" THEN StripSlash(SubSeq(s, 2, Len(s)))
    ELSE IF Len(s) > 0 /\ Char(s, Len(s)) = "/"
         THEN StripSlash(SubSeq(s, 1, Len(s) - 1))
         ELSE s

RECURSIVE SplitSep(_, _)
\* str.split(sep): always at least one part
SplitSep(s, sep) ==
    LET i == Find(s, sep)
    IN  IF i = 0 THEN <<s>>
        ELSE <<SubSeq(s, 1, i - 1)>>
                \o SplitSep(SubSeq(s, i + Len(sep), Len(s)), sep)

RECURSIVE WordEnd(_, _)
\* the index of the last character of the run of non-blanks starting at i
WordEnd(s, i) ==
    IF i < Len(s) /\ ~IsSpace(Char(s, i + 1)) THEN WordEnd(s, i + 1) ELSE i

RECURSIVE SplitWS(_)
\* str.split() with no argument: runs of non-blanks, none of them empty
SplitWS(s) ==
    LET t == LStrip(s)
    IN  IF t = "" THEN <<>>
        ELSE LET e == WordEnd(t, 1)
             IN  <<SubSeq(t, 1, e)>> \o SplitWS(SubSeq(t, e + 1, Len(t)))

RECURSIVE SplitLines(_)
\* str.splitlines(), and file.readlines() without the line ends, which the
\* callers strip
SplitLines(s) ==
    IF s = "" THEN <<>>
    ELSE LET i == Find(s, "\n")
         IN  IF i = 0 THEN <<s>>
             ELSE <<SubSeq(s, 1, i - 1)>> \o SplitLines(SubSeq(s, i + 1, Len(s)))

\* str.replace(old, new) for an old that occurs at most once
Replace(s, old, new) ==
    LET i == Find(s, old)
    IN  IF i = 0 THEN s
        ELSE SubSeq(s, 1, i - 1) \o new \o SubSeq(s, i + Len(old), Len(s))

\* str.isdigit()
IsDigit(s) == Len(s) > 0 /\ \A i \in 1..Len(s) : IsDigitChar(Char(s, i))

RECURSIVE StripZeros(_)
StripZeros(s) ==
    IF Len(s) > 1 /\ Char(s, 1) = "0" THEN StripZeros(SubSeq(s, 2, Len(s))) ELSE s

RECURSIVE NatStr(_)
\* str(n) for a natural number n
NatStr(n) == IF n < 10 THEN Digits[n + 1] ELSE NatStr(n \div 10) \o Digits[(n % 10) + 1]

RECURSIVE MulCarry(_, _, _)
\* the decimal string of int(s) * m + carry, computed digit by digit from the
\* right so that no intermediate value leaves the machine integers
MulCarry(s, m, carry) ==
    IF s = "" THEN (IF carry = 0 THEN "" ELSE NatStr(carry))
    ELSE LET v == DigitVal[Char(s, Len(s))] * m + carry
         IN  MulCarry(SubSeq(s, 1, Len(s) - 1), m, v \div 10) \o Digits[(v % 10) + 1]

\* str(int(s) * 1024) for a digit string s
Times1024(s) == StripZeros(MulCarry(s, 1024, 0))

\* int(s) succeeds: an optional sign and digits, blanks around them allowed
IsInt(s) ==
    LET t == Strip(s)
    IN  \/ IsDigit(t)
        \/ /\ Len(t) > 1
           /\ Char(t, 1) \in {"-", "+"}
           /\ IsDigit(SubSeq(t, 2, Len(t)))

\* int(s) < 0, for an s with IsInt(s)
IntIsNegative(s) ==
    LET t == Strip(s)
    IN  /\ Char(t, 1) = "-"
        /\ \E i \in 2..Len(t) : Char(t, i) # "0"

RECURSIVE DigitRunEnd(_, _)
DigitRunEnd(s, i) ==
    IF i < Len(s) /\ IsDigitChar(Char(s, i + 1)) THEN DigitRunEnd(s, i + 1) ELSE i

\* re.search(r"\d+", s): the first maximal run of digits, or None
SearchDigits(s) ==
    IF \E i \in 1..Len(s) : IsDigitChar(Char(s, i))
    THEN LET b == CHOOSE i \in 1..Len(s) :
                    /\ IsDigitChar(Char(s, i))
                    /\ \A j \in 1..(i - 1) : ~IsDigitChar(Char(s, j))
         IN  SubSeq(s, b, DigitRunEnd(s, b))
    ELSE PyNone


\* the characters of file and directory names in code-point order, for
\* comparing strings
Ascii == " ,-./0123456789:<=>ABCDEFGHIJKLMNOPQRSTUVWXYZ_abcdefghijklmnopqrstuvwxyz"

CharCode(c) == Find(Ascii, c)

RECURSIVE StrLess(_, _)
\* a < b for Python strings
StrLess(a, b) ==
    IF a = "" THEN b # ""
    ELSE IF b = "" THEN FALSE
    ELSE IF Char(a, 1) = Char(b, 1)
         THEN StrLess(SubSeq(a, 2, Len(a)), SubSeq(b, 2, Len(b)))
         ELSE CharCode(Char(a, 1)) < CharCode(Char(b, 1))

RECURSIVE SortedDescending(_)
\* Sorted with the order reversed
SortedDescending(S) ==
    IF S = {} THEN <<>>
    ELSE LET m == CHOOSE x \in S : \A y \in S \ {x} : StrLess(y, x)
         IN  <<m>> \o SortedDescending(S \ {m})

RECURSIVE Sorted(_)
\* sorted(names) for a collection of distinct strings
Sorted(S) ==
    IF S = {} THEN <<>>
    ELSE LET m == CHOOSE x \in S : \A y \in S \ {x} : StrLess(x, y)
         IN  <<m>> \o Sorted(S \ {m})

\* os.path.join(a, b)
PathJoin(a, b) ==
    IF Len(b) > 0 /\ Char(b, 1) = "/" THEN b
    ELSE IF a = "" \/ Char(a, Len(a)) = "/" THEN a \o b
    ELSE a \o "/" \o b

RECURSIVE NormParts(_, _)
NormParts(parts, acc) ==
    IF parts = <<>> THEN acc
    ELSE LET p == Head(parts)
         IN  IF p = "" \/ p = "." THEN NormParts(Tail(parts), acc)
             ELSE IF p = ".."
                  THEN NormParts(Tail(parts),
                                 IF acc = <<>> THEN acc ELSE SubSeq(acc, 1, Len(acc) - 1))
                  ELSE NormParts(Tail(parts), Append(acc, p))

RECURSIVE JoinParts(_)
JoinParts(parts) ==
    IF parts = <<>> THEN "" ELSE "/" \o Head(parts) \o JoinParts(Tail(parts))

\* the file the kernel resolves an absolute path to
NormPath(p) == JoinParts(NormParts(SplitSep(p, "/"), <<>>))

(***************************************************************************)
(* Python dicts                                                            *)
(***************************************************************************)
EmptyDict == <<>>

\* d[k] = v
DictPut(d, k, v) == [x \in (DOMAIN d) \cup {k} |-> IF x = k THEN v ELSE d[x]]

\* a dict literal or a module-level table, in insertion order: a sequence of
\* <<key, value>> pairs with distinct keys
ItemKeys(items) == {items[i][1] : i \in 1..Len(items)}

ItemGet(items, k) == items[CHOOSE i \in 1..Len(items) : items[i][1] = k][2]

\* items[k] = v: an existing key keeps its place, a new one goes last
ItemPut(items, k, v) ==
    IF k \in ItemKeys(items)
    THEN [i \in 1..Len(items) |-> IF items[i][1] = k THEN <<k, v>> ELSE items[i]]
    ELSE Append(items, <<k, v>>)


(***************************************************************************)
(* State                                                                   *)
(***************************************************************************)
VARIABLES
    \* the module-level mapping tables
    VIRSH_BLKIOTUNE_OUTPUT_MAPPING,
    CGROUP_V1_BLKIO_FILE_MAPPING,
    CGROUP_V2_BLKIO_FILE_MAPPING,
    CGROUP_V1_MEM_FILE_MAPPING,
    CGROUP_V2_MEM_FILE_MAPPING,
    CGROUP_V1_SCHEDINFO_FILE_MAPPING,
    CGROUP_V2_SCHEDINFO_FILE_MAPPING,
    \* the host the code runs on
    cgroup_v2,      \* /proc/mounts lists a cgroup2 mount
    bfq,            \* the first disk's scheduler line names bfq
    page_size,      \* what `getconf PAGE_SIZE` prints
    cgroup_dirs,    \* the VM's cgroup directories exist
    files,          \* the cgroup control files: path |-> content
    changes,        \* how many out-of-band changes the host has seen
    \* the call whose outcome the test holds: the class is used from one
    \* thread, one call at a time
    last

tables == <<VIRSH_BLKIOTUNE_OUTPUT_MAPPING, CGROUP_V1_BLKIO_FILE_MAPPING,
            CGROUP_V2_BLKIO_FILE_MAPPING, CGROUP_V1_MEM_FILE_MAPPING,
            CGROUP_V2_MEM_FILE_MAPPING, CGROUP_V1_SCHEDINFO_FILE_MAPPING,
            CGROUP_V2_SCHEDINFO_FILE_MAPPING>>

host == <<cgroup_v2, bfq, page_size, cgroup_dirs, files, changes>>

vars == <<tables, host, last>>

\* the tables the code never assigns to
const_tables == <<VIRSH_BLKIOTUNE_OUTPUT_MAPPING, CGROUP_V2_BLKIO_FILE_MAPPING,
                  CGROUP_V1_MEM_FILE_MAPPING, CGROUP_V2_MEM_FILE_MAPPING,
                  CGROUP_V1_SCHEDINFO_FILE_MAPPING,
                  CGROUP_V2_SCHEDINFO_FILE_MAPPING>>

(***************************************************************************)
(* The tables as the module defines them                                   *)
(***************************************************************************)
VirshBlkiotuneOutputMapping ==
    << <<"weight", "weight">>,
       <<"device_read_iops_sec", "riops">>,
       <<"device_write_iops_sec", "wiops">>,
       <<"device_read_bytes_sec", "rbps">>,
       <<"device_write_bytes_sec", "wbps">> >>

CgroupV1BlkioFileMapping ==
    << <<"weight", "blkio.bfq.weight">>,
       <<"wiops", "blkio.throttle.write_iops_device">>,
       <<"riops", "blkio.throttle.read_iops_device">>,
       <<"rbps", "blkio.throttle.read_bps_device">>,
       <<"wbps", "blkio.throttle.write_bps_device">> >>

CgroupV2BlkioFileMapping ==
    << <<"weight", "io.bfq.weight">>,
       <<"wiops", "io.max">>,
       <<"riops", "io.max">>,
       <<"rbps", "io.max">>,
       <<"wbps", "io.max">> >>

CgroupV1MemFileMapping ==
    << <<"hard_limit", "memory.limit_in_bytes">>,
       <<"soft_limit", "memory.soft_limit_in_bytes">>,
       <<"swap_hard_limit", "memory.memsw.limit_in_bytes">> >>

CgroupV2MemFileMapping ==
    << <<"hard_limit", "memory.max">>,
       <<"soft_limit", "memory.high">>,
       <<"swap_hard_limit", "memory.swap.max">> >>

CgroupV1SchedinfoFileMapping ==
    << <<"cpu_shares", "cpu.shares">>,
       <<"vcpu_period", "<vcpuX>/cpu.cfs_period_us">>,
       <<"vcpu_quota", "<vcpuX>/cpu.cfs_quota_us">>,
       <<"emulator_period", "emulator/cpu.cfs_period_us">>,
       <<"emulator_quota", "emulator/cpu.cfs_quota_us">>,
       <<"global_period", "cpu.cfs_period_us">>,
       <<"global_quota", "cpu.cfs_quota_us">>,
       <<"iothread_period", "<iothreadX>/cpu.cfs_period_us">>,
       <<"iothread_quota", "<iothreadX>/cpu.cfs_quota_us">> >>

CgroupV2SchedinfoFileMapping ==
    << <<"cpu_shares", "cpu.weight">>,
       <<"vcpu_period", "<vcpuX>/cpu.max">>,
       <<"vcpu_quota", "<vcpuX>/cpu.max">>,
       <<"emulator_period", "emulator/cpu.max">>,
       <<"emulator_quota", "emulator/cpu.max">>,
       <<"global_period", "cpu.max">>,
       <<"global_quota", "cpu.max">>,
       <<"iothread_period", "<iothreadX>/cpu.max">>,
       <<"iothread_quota", "<iothreadX>/cpu.max">> >>

(***************************************************************************)
(* Results of calls: a return value or an exception                        *)
(***************************************************************************)
Ok(x) == [st |-> "ok", v |-> x]

Raise == [st |-> "raise", v |-> <<>>]

\* `return None` from a function that otherwise returns a list or a dict
ReturnNone == [st |-> "none", v |-> <<>>]


(***************************************************************************)
(* The host: the file system and the collaborators                         *)
(***************************************************************************)
\* the files and directories at or below a normalized path
Below(np) ==
    {f \in DOMAIN files :
        f = np \/ (Len(f) > Len(np) /\ SubSeq(f, 1, Len(np) + 1) = np \o "/")}

\* os.path.exists(path)
PathExists(path) == cgroup_dirs /\ Below(NormPath(path)) # {}

\* open(path).read(): the content, or an exception when there is no such file
OpenRead(path) ==
    IF cgroup_dirs /\ NormPath(path) \in DOMAIN files
    THEN Ok(files[NormPath(path)])
    ELSE Raise

\* what os.listdir(None) lists: the working directory of the test run
WorkingDirEntries == {"results", "vcpu_pinning.log"}

\* os.listdir(path)
ListDir(path) ==
    IF path = PyNone THEN Ok(WorkingDirEntries)
    ELSE LET np == NormPath(path)
         IN  IF ~PathExists(path) THEN Raise
             ELSE Ok({ SplitSep(SubSeq(f, Len(np) + 2, Len(f)), "/")[1] :
                        f \in Below(np) \ {np} })

\* utils_cgroup.resolve_task_cgroup_path(pid, controller): the VM's process
\* sits in the emulator directory of the cpu controller and in the VM's own
\* directory of the other controllers
resolve_task_cgroup_path(controller) ==
    IF controller = "cpu,cpuacct"
    THEN "/cg/cpu,cpuacct/vm/libvirt/emulator"
    ELSE "/cg/" \o controller \o "/vm/libvirt"

\* re.findall(r"\s(\S*cgroup)\s", /proc/mounts)[0]
cg_mount_point == "/cgroup"

\* re.findall(r"\S*::(\S*)", /proc/<pid>/cgroup)[0]
cg_vm_scope == "/vm/libvirt/emulator"

\* get_cgroup_path(controller) on a host whose is_cgroup_v2_enabled() is v2
get_cgroup_path(v2, controller) ==
    LET joined == PathJoin(cg_mount_point, StripSlash(cg_vm_scope))
        cgroup_path ==
            IF v2
            THEN (IF Contains(joined, "emulator") THEN joined \o "/.." ELSE joined)
            ELSE resolve_task_cgroup_path(controller)
    IN  IF ~PathExists(cgroup_path) THEN PyNone ELSE cgroup_path

\* is_bfq(): "bfq" in the first line of the scheduler file
scheduler_line == IF bfq THEN "mq-deadline kyber [bfq] none\n" ELSE "noop deadline [cfq]\n"

is_bfq == Contains(scheduler_line, "bfq")

\* __get_cpu_subdirs(controller_path, dir_keyword)
get_cpu_subdirs(controller_path, dir_keyword) ==
    LET listing == ListDir(controller_path)
    IN  IF listing.st = "raise" THEN Raise
        ELSE LET dir_names == {n \in listing.v : Contains(n, dir_keyword)}
             IN  IF dir_names = {} /\ Contains(dir_keyword, "iothread")
                 THEN ReturnNone
                 ELSE Ok(Sorted(dir_names))

\* `if dirs:` for what __get_cpu_subdirs returned
Truthy(dirs) == dirs.st = "ok" /\ dirs.v # <<>>

(***************************************************************************)
(* __get_standardized_cgroup1_info                                         *)
(***************************************************************************)
\* the nested __get_cg_file_path(cg_key, cg_path, cg_file_name)
get_cg_file_path(cg_key, cg_path, cg_file_name) ==
    IF cg_path = PyNone THEN Raise      \* `in` or os.path.join on None
    ELSE IF cg_key \in {"weight", "cpu_shares"} /\ Contains(cg_path, "libvirt")
         THEN Ok(PathJoin(SplitSep(cg_path, "libvirt")[1], cg_file_name))
         ELSE Ok(PathJoin(cg_path, cg_file_name))

dev_init_dict ==
    [k \in {"rbps", "wbps", "riops", "wiops"} |-> "max"]

\* PatchedV1Blkio swapping the weight file name back and forth
PatchedV1BlkioToggling(table) ==
    IF ~is_bfq
    THEN ItemPut(ItemPut(table, "weight",
                         IF ItemGet(table, "weight") = "blkio.weight"
                         THEN "blkio.bfq.weight" ELSE "blkio.weight"),
                 "weight_device", "blkio.weight_device")
    ELSE table

\* what the v1 block-I/O table is after lines 180-182
PatchedV1Blkio(table) ==
    IF ~is_bfq
    THEN ItemPut(ItemPut(table, "weight", "blkio.weight"),
                 "weight_device", "blkio.weight_device")
    ELSE table

RECURSIVE V1DevLines(_, _, _)
\* lines 189-196: acc is [st, info, dev_list]
V1DevLines(lines, cg_key, acc) ==
    IF lines = <<>> \/ acc.st = "raise" THEN acc
    ELSE LET dev_info == SplitWS(Strip(Head(lines)))
         IN  IF Len(dev_info) < 2
             THEN [acc EXCEPT !.st = "raise"]
             ELSE LET dev_num == dev_info[1]
                      dev_cg_value == dev_info[2]
                      seeded == IF dev_num \notin acc.dev_list
                                THEN DictPut(acc.info, dev_num, dev_init_dict)
                                ELSE acc.info
                  IN  V1DevLines(Tail(lines), cg_key,
                         [st |-> "ok",
                          info |-> DictPut(seeded, dev_num,
                                     DictPut(seeded[dev_num], cg_key, dev_cg_value)),
                          dev_list |-> acc.dev_list \cup {dev_num}])

RECURSIVE V1BlkioLoop(_, _, _)
\* lines 183-196
V1BlkioLoop(items, cgroup_path, acc) ==
    IF items = <<>> \/ acc.st = "raise" THEN acc
    ELSE LET cg_key == Head(items)[1]
             cg_file_path == get_cg_file_path(cg_key, cgroup_path, Head(items)[2])
             cg_file == IF cg_file_path.st = "ok" THEN OpenRead(cg_file_path.v)
                        ELSE Raise
             weighted == IF cg_key \in {"weight"}
                         THEN [acc EXCEPT !.info =
                                  DictPut(acc.info, cg_key, Strip(cg_file.v))]
                         ELSE acc
         IN  IF cg_file.st = "raise" THEN [acc EXCEPT !.st = "raise"]
             ELSE V1BlkioLoop(Tail(items), cgroup_path,
                     IF cg_key \in {"rbps", "wbps", "riops", "wiops", "weight_device"}
                     THEN V1DevLines(SplitLines(cg_file.v), cg_key, weighted)
                     ELSE weighted)

\* lines 171-196, for the table as patched
V1Blkiotune(v2, table) ==
    LET r == V1BlkioLoop(table, get_cgroup_path(v2, "blkio"),
                         [st |-> "ok", info |-> EmptyDict, dev_list |-> {}])
    IN  IF r.st = "ok" THEN Ok(r.info) ELSE Raise

\* int(page_size) == 65536
IsInt65536(s) ==
    LET t == Strip(s)
    IN  StripZeros(IF Char(t, 1) = "+" THEN SubSeq(t, 2, Len(t)) ELSE t) = "65536"

RECURSIVE V1MemLoop(_, _, _, _)
\* lines 209-214
V1MemLoop(items, cgroup_path, max_mem_value, acc) ==
    IF items = <<>> \/ acc.st = "raise" THEN acc
    ELSE LET cg_file == IF cgroup_path = PyNone THEN Raise
                        ELSE OpenRead(PathJoin(cgroup_path, Head(items)[2]))
             cg_file_value == Strip(cg_file.v)
         IN  IF cg_file.st = "raise" THEN Raise
             ELSE V1MemLoop(Tail(items), cgroup_path, max_mem_value,
                     Ok(DictPut(acc.v, Head(items)[1],
                                IF cg_file_value = max_mem_value THEN "max"
                                ELSE cg_file_value)))

\* lines 197-214
V1Memtune(v2) ==
    LET cgroup_path == get_cgroup_path(v2, "memory")
        size == Strip(page_size)
    IN  IF ~IsInt(size) THEN Raise
        ELSE V1MemLoop(CGROUP_V1_MEM_FILE_MAPPING, cgroup_path,
                       IF IsInt65536(size) THEN "9223372036854710272"
                       ELSE "9223372036854771712",
                       Ok(EmptyDict))


\* lines 221-229 and 291-299: the file name with its placeholder replaced;
\* an exception when there is no vcpu directory, "skip" for `continue`
SubstitutePlaceholders(cg_file_name, vcpu_dirs, iothread_dirs) ==
    IF Contains(cg_file_name, "<vcpuX>") /\ vcpu_dirs = <<>> THEN Raise
    ELSE LET named == IF Contains(cg_file_name, "<vcpuX>")
                      THEN Replace(cg_file_name, "<vcpuX>", vcpu_dirs[1])
                      ELSE cg_file_name
         IN  IF Contains(named, "<iothreadX>")
             THEN (IF Truthy(iothread_dirs)
                   THEN Ok(Replace(named, "<iothreadX>", iothread_dirs.v[1]))
                   ELSE [st |-> "skip", v |-> <<>>])
             ELSE Ok(named)

\* V1SchedValue without the comparison with max_cpu_value
V1SchedValueQuotaOnly(cg_key, content) ==
    LET cg_file_value == Strip(content)
    IN  IF Contains(cg_key, "quota")
           /\ cg_file_value \in {"-1", "18446744073709551", "17592186044415"}
        THEN "max"
        ELSE cg_file_value

\* lines 232-243: the value stored for a key whose file reads as content
V1SchedValue(cg_key, content) ==
    LET stripped == Strip(content)
        max_cpu_value == "-1"
        cg_file_value == IF stripped = max_cpu_value THEN "max" ELSE stripped
    IN  IF Contains(cg_key, "quota")
           /\ cg_file_value \in {"-1", "18446744073709551", "17592186044415"}
        THEN "max"
        ELSE cg_file_value

RECURSIVE V1SchedLoop(_, _, _, _, _)
\* lines 220-243
V1SchedLoop(items, cgroup_path, vcpu_dirs, iothread_dirs, acc) ==
    IF items = <<>> \/ acc.st = "raise" THEN acc
    ELSE LET cg_key == Head(items)[1]
             name == SubstitutePlaceholders(Head(items)[2], vcpu_dirs, iothread_dirs)
             cg_file_path == get_cg_file_path(cg_key, cgroup_path, name.v)
             cg_file == IF cg_file_path.st = "ok" THEN OpenRead(cg_file_path.v)
                        ELSE Raise
         IN  IF name.st = "raise" THEN Raise
             ELSE IF name.st = "skip"
                  THEN V1SchedLoop(Tail(items), cgroup_path, vcpu_dirs,
                                   iothread_dirs, acc)
             ELSE IF cg_file.st = "raise" THEN Raise
             ELSE V1SchedLoop(Tail(items), cgroup_path, vcpu_dirs, iothread_dirs,
                     Ok(DictPut(acc.v, cg_key, V1SchedValue(cg_key, cg_file.v))))

\* lines 215-243
V1Schedinfo(v2) ==
    LET resolved == get_cgroup_path(v2, "cpu,cpuacct")
        cgroup_path == resolved \o "/.."
        vcpu_dirs == get_cpu_subdirs(cgroup_path, "vcpu")
        iothread_dirs == get_cpu_subdirs(cgroup_path, "iothread")
    IN  IF resolved = PyNone THEN Raise        \* None + "/.."
        ELSE IF vcpu_dirs.st = "raise" \/ iothread_dirs.st = "raise" THEN Raise
        ELSE V1SchedLoop(CGROUP_V1_SCHEDINFO_FILE_MAPPING, cgroup_path,
                         vcpu_dirs.v, iothread_dirs, Ok(EmptyDict))

\* __get_standardized_cgroup1_info(virsh_cmd): the value returned or the
\* exception, and the v1 block-I/O table it leaves behind
get_standardized_cgroup1_info(v2, virsh_cmd) ==
    IF virsh_cmd = "blkiotune"
    THEN [ret |-> V1Blkiotune(v2, PatchedV1Blkio(CGROUP_V1_BLKIO_FILE_MAPPING)),
          table |-> PatchedV1Blkio(CGROUP_V1_BLKIO_FILE_MAPPING)]
    ELSE [ret |-> IF virsh_cmd = "memtune" THEN V1Memtune(v2)
                  ELSE IF virsh_cmd = "schedinfo" THEN V1Schedinfo(v2)
                  ELSE Ok(EmptyDict),
          table |-> CGROUP_V1_BLKIO_FILE_MAPPING]

(***************************************************************************)
(* __get_standardized_cgroup2_info                                         *)
(***************************************************************************)
RECURSIVE V2IomaxPairs(_, _)
\* lines 278-280: acc is the device's dict, or an exception when a token does
\* not split at "=" into exactly two parts
V2IomaxPairs(tokens, acc) ==
    IF tokens = <<>> \/ acc.st = "raise" THEN acc
    ELSE LET kv == SplitSep(Head(tokens), "=")
         IN  IF Len(kv) # 2 THEN Raise
             ELSE V2IomaxPairs(Tail(tokens), Ok(DictPut(acc.v, kv[1], kv[2])))

RECURSIVE V2IomaxLines(_, _)
\* lines 274-281
V2IomaxLines(lines, acc) ==
    IF lines = <<>> \/ acc.st = "raise" THEN acc
    ELSE LET dev_iomax_info == SplitWS(Strip(Head(lines)))
             dev_iomax_dict == V2IomaxPairs(Tail(dev_iomax_info), Ok(EmptyDict))
         IN  IF dev_iomax_info = <<>> THEN Raise
             ELSE IF dev_iomax_dict.st = "raise" THEN Raise
             ELSE V2IomaxLines(Tail(lines),
                     Ok(DictPut(acc.v, dev_iomax_info[1], dev_iomax_dict.v)))

\* lines 260-281
V2Blkiotune(cgroup_path) ==
    LET weight_file_name == ItemGet(CGROUP_V2_BLKIO_FILE_MAPPING, "weight")
        iomax_file_name == ItemGet(CGROUP_V2_BLKIO_FILE_MAPPING, "wiops")
        weight_file == OpenRead(PathJoin(SplitSep(cgroup_path, "libvirt")[1],
                                         weight_file_name))
        iomax_file == OpenRead(PathJoin(cgroup_path, iomax_file_name))
    IN  IF cgroup_path = PyNone THEN Raise     \* None.split
        ELSE IF weight_file.st = "raise" \/ iomax_file.st = "raise" THEN Raise
        ELSE V2IomaxLines(SplitLines(iomax_file.v),
                          Ok(DictPut(EmptyDict, "weight", SearchDigits(weight_file.v))))

RECURSIVE V2MemLoopSkipping(_, _, _)
\* V2MemLoop passing over a file it cannot open
V2MemLoopSkipping(items, cgroup_path, acc) ==
    IF items = <<>> \/ acc.st = "raise" THEN acc
    ELSE LET cg_file == IF cgroup_path = PyNone THEN Raise
                        ELSE OpenRead(PathJoin(cgroup_path, Head(items)[2]))
         IN  IF cg_file.st = "raise"
             THEN V2MemLoopSkipping(Tail(items), cgroup_path, acc)
             ELSE V2MemLoopSkipping(Tail(items), cgroup_path,
                            Ok(DictPut(acc.v, Head(items)[1], Strip(cg_file.v))))

RECURSIVE V2MemLoop(_, _, _)
\* lines 283-286
V2MemLoop(items, cgroup_path, acc) ==
    IF items = <<>> \/ acc.st = "raise" THEN acc
    ELSE LET cg_file == IF cgroup_path = PyNone THEN Raise
                        ELSE OpenRead(PathJoin(cgroup_path, Head(items)[2]))
         IN  IF cg_file.st = "raise" THEN Raise
             ELSE V2MemLoop(Tail(items), cgroup_path,
                            Ok(DictPut(acc.v, Head(items)[1], Strip(cg_file.v))))

\* V2SchedValue with list_index left at 0 for every key
V2SchedValueFirstToken(cg_key, content) ==
    LET cg_file_values == SplitWS(Strip(content))
    IN  IF Len(cg_file_values) < 1 THEN Raise
        ELSE Ok(cg_file_values[1])

\* lines 304-308: the value stored for a key whose file reads as content, or
\* an exception when the file has too few tokens
V2SchedValue(cg_key, content) ==
    LET cg_file_values == SplitWS(Strip(content))
        list_index == IF Contains(cg_key, "period") THEN 1 ELSE 0
    IN  IF Len(cg_file_values) < list_index + 1 THEN Raise
        ELSE Ok(cg_file_values[list_index + 1])

RECURSIVE V2SchedLoop(_, _, _, _, _)
\* lines 290-308
V2SchedLoop(items, cgroup_path, vcpu_dirs, iothread_dirs, acc) ==
    IF items = <<>> \/ acc.st = "raise" THEN acc
    ELSE LET cg_key == Head(items)[1]
             name == SubstitutePlaceholders(Head(items)[2], vcpu_dirs, iothread_dirs)
             cg_dir == IF cg_key = "cpu_shares"
                       THEN SplitSep(cgroup_path, "libvirt")[1]
                       ELSE cgroup_path
             cg_file == IF cgroup_path = PyNone THEN Raise
                        ELSE OpenRead(PathJoin(cg_dir, name.v))
             value == V2SchedValue(cg_key, cg_file.v)
         IN  IF name.st = "raise" THEN Raise
             ELSE IF name.st = "skip"
                  THEN V2SchedLoop(Tail(items), cgroup_path, vcpu_dirs,
                                   iothread_dirs, acc)
             ELSE IF cg_file.st = "raise" THEN Raise
             ELSE IF value.st = "raise" THEN Raise
             ELSE V2SchedLoop(Tail(items), cgroup_path, vcpu_dirs, iothread_dirs,
                              Ok(DictPut(acc.v, cg_key, value.v)))

\* lines 287-308
V2Schedinfo(cgroup_path) ==
    LET vcpu_dirs == get_cpu_subdirs(cgroup_path, "vcpu")
        iothread_dirs == get_cpu_subdirs(cgroup_path, "iothread")
    IN  IF vcpu_dirs.st = "raise" \/ iothread_dirs.st = "raise" THEN Raise
        ELSE V2SchedLoop(CGROUP_V2_SCHEDINFO_FILE_MAPPING, cgroup_path,
                         vcpu_dirs.v, iothread_dirs, Ok(EmptyDict))

\* __get_standardized_cgroup2_info(virsh_cmd)
get_standardized_cgroup2_info(v2, virsh_cmd) ==
    LET cgroup_path == get_cgroup_path(v2, PyNone)
    IN  IF virsh_cmd = "blkiotune" THEN V2Blkiotune(cgroup_path)
        ELSE IF virsh_cmd = "memtune"
             THEN V2MemLoop(CGROUP_V2_MEM_FILE_MAPPING, cgroup_path, Ok(EmptyDict))
        ELSE IF virsh_cmd = "schedinfo" THEN V2Schedinfo(cgroup_path)
        ELSE Ok(EmptyDict)

\* get_standardized_cgroup_info applying the patch of the v1 table on a v2
\* host too
get_standardized_cgroup_info_patching(v2, virsh_cmd) ==
    IF v2
    THEN [ret |-> get_standardized_cgroup2_info(v2, virsh_cmd),
          table |-> IF virsh_cmd = "blkiotune"
                    THEN PatchedV1Blkio(CGROUP_V1_BLKIO_FILE_MAPPING)
                    ELSE CGROUP_V1_BLKIO_FILE_MAPPING]
    ELSE get_standardized_cgroup1_info(v2, virsh_cmd)

\* get_standardized_cgroup_info(virsh_cmd) on a host whose
\* is_cgroup_v2_enabled() is v2
get_standardized_cgroup_info(v2, virsh_cmd) ==
    IF v2
    THEN [ret |-> get_standardized_cgroup2_info(v2, virsh_cmd),
          table |-> CGROUP_V1_BLKIO_FILE_MAPPING]
    ELSE get_standardized_cgroup1_info(v2, virsh_cmd)


(***************************************************************************)
(* The virsh report side                                                   *)
(***************************************************************************)
RECURSIVE ConvertLines(_, _)
\* lines 385-392
ConvertLines(output_list, output_dict) ==
    IF output_list = <<>> THEN output_dict
    ELSE LET output_info == SplitSep(Head(output_list), ":")
             output_param == Strip(output_info[1])
             output_value == IF Len(output_info) = 1 THEN ""
                             ELSE Strip(output_info[2])
         IN  ConvertLines(Tail(output_list),
                          ItemPut(output_dict, output_param, output_value))

\* convert_virsh_output_to_dict(result), for result.stdout_text
convert_virsh_output_to_dict(stdout_text) ==
    ConvertLines(SplitLines(Strip(stdout_text)), <<>>)

\* the device nodes of the host: path |-> the major:minor that os.stat yields
DevNodes == ("/dev/sda" :> "8:0") @@ ("/dev/sdb" :> "8:16")

\* __get_dev_major_minor(dev_path)
get_dev_major_minor(dev_path) ==
    IF dev_path \notin DOMAIN DevNodes THEN PyNone ELSE DevNodes[dev_path]

RECURSIVE VirshBlkioValues(_, _, _, _)
\* lines 430-440: acc is [st, info, dev_list], i counts from 1
VirshBlkioValues(io_value_list, i, io_item, acc) ==
    IF i > Len(io_value_list) \/ acc.st = "raise" THEN acc
    ELSE IF ~Contains(io_value_list[i], "dev")
         THEN VirshBlkioValues(io_value_list, i + 1, io_item, acc)
    ELSE LET dev_num == get_dev_major_minor(io_value_list[i])
             seeded == IF dev_num \notin acc.dev_list
                       THEN DictPut(acc.info, dev_num, dev_init_dict)
                       ELSE acc.info
         IN  IF i + 1 > Len(io_value_list) THEN [acc EXCEPT !.st = "raise"]
             ELSE VirshBlkioValues(io_value_list, i + 1, io_item,
                     [st |-> "ok",
                      info |-> DictPut(seeded, dev_num,
                                 DictPut(seeded[dev_num],
                                         ItemGet(VIRSH_BLKIOTUNE_OUTPUT_MAPPING, io_item),
                                         io_value_list[i + 1])),
                      dev_list |-> acc.dev_list \cup {dev_num}])

RECURSIVE VirshBlkioLoop(_, _)
\* lines 425-440
VirshBlkioLoop(items, acc) ==
    IF items = <<>> \/ acc.st = "raise" THEN acc
    ELSE LET io_item == Head(items)[1]
             io_item_value == Head(items)[2]
         IN  VirshBlkioLoop(Tail(items),
                IF io_item \in {"weight"}
                THEN [acc EXCEPT !.info = DictPut(acc.info, io_item, io_item_value)]
                ELSE IF io_item \in ItemKeys(VIRSH_BLKIOTUNE_OUTPUT_MAPPING)
                        /\ io_item_value # ""
                     THEN VirshBlkioValues(SplitSep(io_item_value, ","), 1,
                                           io_item, acc)
                     ELSE acc)

\* VirshMemValue taking a KiB for 1000 bytes
VirshMemValueDecimalKilo(mem_item_value) ==
    IF mem_item_value \in {"unlimited"} THEN "max"
    ELSE IF IsDigit(mem_item_value) THEN StripZeros(MulCarry(mem_item_value, 1000, 0))
    ELSE mem_item_value

\* lines 448-455: the value stored for a memtune item
VirshMemValue(mem_item_value) ==
    IF mem_item_value \in {"unlimited"} THEN "max"
    ELSE IF IsDigit(mem_item_value) THEN Times1024(mem_item_value)
    ELSE mem_item_value

RECURSIVE VirshMemLoop(_, _)
\* lines 447-455
VirshMemLoop(items, info) ==
    IF items = <<>> THEN info
    ELSE VirshMemLoop(Tail(items),
                      DictPut(info, Head(items)[1], VirshMemValue(Head(items)[2])))

LowerOf ==
    [c \in {Char("ABCDEFGHIJKLMNOPQRSTUVWXYZ", i) : i \in 1..26} |->
        Char("abcdefghijklmnopqrstuvwxyz", Find("ABCDEFGHIJKLMNOPQRSTUVWXYZ", c))]

RECURSIVE Lower(_)
\* str.lower()
Lower(s) ==
    IF s = "" THEN ""
    ELSE (IF Char(s, 1) \in DOMAIN LowerOf THEN LowerOf[Char(s, 1)] ELSE Char(s, 1))
            \o Lower(SubSeq(s, 2, Len(s)))

RECURSIVE VirshSchedLoop(_, _)
\* lines 462-476
VirshSchedLoop(items, acc) ==
    IF items = <<>> \/ acc.st = "raise" THEN acc
    ELSE LET schedinfo_item == Head(items)[1]
             schedinfo_value == Head(items)[2]
             sentinel == schedinfo_value \in {"18446744073709551", "17592186044415"}
         IN  IF Lower(schedinfo_item) \in {"scheduler"}
             THEN VirshSchedLoop(Tail(items), acc)
             ELSE IF Contains(schedinfo_item, "quota") /\ ~sentinel
                     /\ ~IsInt(schedinfo_value)
                  THEN Raise                    \* int() of a non-number
             ELSE VirshSchedLoop(Tail(items),
                     Ok(DictPut(acc.v, schedinfo_item,
                          IF Contains(schedinfo_item, "quota")
                             /\ (sentinel \/ IntIsNegative(schedinfo_value))
                          THEN "max"
                          ELSE schedinfo_value)))

\* UnsupportedVirshCmd returning the empty dict it started from
UnsupportedVirshCmdEmptyDict == Ok(EmptyDict)

\* lines 477-479: the last branch of get_standardized_virsh_info
UnsupportedVirshCmd == ReturnNone

\* get_standardized_virsh_info(virsh_cmd, virsh_dict)
get_standardized_virsh_info(virsh_cmd, virsh_dict) ==
    IF virsh_cmd = "blkiotune"
    THEN LET r == VirshBlkioLoop(virsh_dict,
                     [st |-> "ok", info |-> EmptyDict, dev_list |-> {}])
         IN  IF r.st = "ok" THEN Ok(r.info) ELSE Raise
    ELSE IF virsh_cmd = "memtune"
         THEN Ok(VirshMemLoop(virsh_dict,
                   [k \in {"hard_limit", "soft_limit", "swap_hard_limit"} |-> "max"]))
    ELSE IF virsh_cmd = "schedinfo" THEN VirshSchedLoop(virsh_dict, Ok(EmptyDict))
    ELSE UnsupportedVirshCmd

\* get_virsh_output_dict(vm_name, virsh_cmd), for the text virsh prints
get_virsh_output_dict(virsh_cmd, stdout_text) ==
    IF virsh_cmd \in {"memtune", "blkiotune", "schedinfo"}
    THEN convert_virsh_output_to_dict(stdout_text)
    ELSE PyNone

\* get_standardized_virsh_output_by_name(vm_name, virsh_cmd)
get_standardized_virsh_output_by_name(virsh_cmd, stdout_text) ==
    get_standardized_virsh_info(virsh_cmd,
                                get_virsh_output_dict(virsh_cmd, stdout_text))


(***************************************************************************)
(* The hosts and the reports the model explores                            *)
(***************************************************************************)
\* how many out-of-band changes a host goes through
MaxChanges == 1

V1Blkio == "/cg/blkio/vm/libvirt/"
V1Mem == "/cg/memory/vm/libvirt/"
V1Cpu == "/cg/cpu,cpuacct/vm/libvirt/"
V2Dir == "/cgroup/vm/libvirt/"

\* the control files of a VM with no limit set, as a v1 host presents them
\* (one directory tree per controller) and as a v2 host presents them
DefaultFiles ==
    ("/cg/blkio/vm/blkio.bfq.weight" :> "100\n")
    @@ ("/cg/blkio/vm/blkio.weight" :> "100\n")
    @@ (V1Blkio \o "blkio.throttle.read_iops_device" :> "")
    @@ (V1Blkio \o "blkio.throttle.write_iops_device" :> "")
    @@ (V1Blkio \o "blkio.throttle.read_bps_device" :> "")
    @@ (V1Blkio \o "blkio.throttle.write_bps_device" :> "")
    @@ (V1Blkio \o "blkio.weight_device" :> "")
    @@ (V1Mem \o "memory.limit_in_bytes" :> "9223372036854771712\n")
    @@ (V1Mem \o "memory.soft_limit_in_bytes" :> "9223372036854771712\n")
    @@ (V1Mem \o "memory.memsw.limit_in_bytes" :> "9223372036854771712\n")
    @@ ("/cg/cpu,cpuacct/vm/cpu.shares" :> "1024\n")
    @@ (V1Cpu \o "cpu.cfs_period_us" :> "100000\n")
    @@ (V1Cpu \o "cpu.cfs_quota_us" :> "-1\n")
    @@ (V1Cpu \o "emulator/cpu.cfs_period_us" :> "100000\n")
    @@ (V1Cpu \o "emulator/cpu.cfs_quota_us" :> "-1\n")
    @@ (V1Cpu \o "vcpu0/cpu.cfs_period_us" :> "100000\n")
    @@ (V1Cpu \o "vcpu0/cpu.cfs_quota_us" :> "-1\n")
    @@ (V1Cpu \o "vcpu1/cpu.cfs_period_us" :> "200000\n")
    @@ (V1Cpu \o "vcpu1/cpu.cfs_quota_us" :> "-1\n")
    @@ ("/cgroup/vm/io.bfq.weight" :> "default 100\n")
    @@ ("/cgroup/vm/cpu.weight" :> "100\n")
    @@ (V2Dir \o "io.max" :> "")
    @@ (V2Dir \o "memory.max" :> "max\n")
    @@ (V2Dir \o "memory.high" :> "max\n")
    @@ (V2Dir \o "memory.swap.max" :> "max\n")
    @@ (V2Dir \o "cpu.max" :> "max 100000\n")
    @@ (V2Dir \o "emulator/cpu.max" :> "max 100000\n")
    @@ (V2Dir \o "vcpu0/cpu.max" :> "max 100000\n")
    @@ (V2Dir \o "vcpu1/cpu.max" :> "max 200000\n")

\* What the control files read after something was set on the VM: each change
\* names the files it rewrites, in the v1 trees and in the v2 tree alike.
\* The last four leave the limits as they are and differ only in how a file
\* spells them.
HostChanges ==
    { \* read IOPS of 8:0 limited to 500
      (V1Blkio \o "blkio.throttle.read_iops_device" :> "8:0 500\n")
      @@ (V2Dir \o "io.max" :> "8:0 rbps=max wbps=max riops=500 wiops=max\n"),
      \* write bandwidth of 8:0 and 8:16 limited
      (V1Blkio \o "blkio.throttle.write_bps_device" :> "8:0 7\n8:16 9\n")
      @@ (V2Dir \o "io.max" :>
            "8:0 rbps=max wbps=7 riops=max wiops=max\n8:16 rbps=max wbps=9 riops=max wiops=max\n"),
      \* device weight of 8:0 set to 300
      (V1Blkio \o "blkio.weight_device" :> "8:0 300\n")
      @@ ("/cgroup/vm/io.bfq.weight" :> "default 100\n8:0 300\n"),
      \* hard memory limit of 1 MiB
      (V1Mem \o "memory.limit_in_bytes" :> "1048576\n")
      @@ (V2Dir \o "memory.max" :> "1048576\n"),
      \* global quota of 50000
      (V1Cpu \o "cpu.cfs_quota_us" :> "50000\n")
      @@ (V2Dir \o "cpu.max" :> "50000 100000\n"),
      \* read IOPS of 8:0 limited to 500, io.max listing only that limit
      (V1Blkio \o "blkio.throttle.read_iops_device" :> "8:0 500\n")
      @@ (V2Dir \o "io.max" :> "8:0 riops=500\n"),
      \* no memory limit, as a host with pages of 64 KiB spells it
      (V1Mem \o "memory.limit_in_bytes" :> "9223372036854710272\n"),
      \* no quota, spelled as the largest quota the kernel accepts
      (V1Cpu \o "cpu.cfs_quota_us" :> "18446744073709551\n"),
      \* control files holding -1
      (V1Cpu \o "cpu.cfs_period_us" :> "-1\n")
      @@ (V2Dir \o "cpu.max" :> "-1 100000\n") }

\* the iothreads a VM can have, with the period of each
IothreadPeriod == ("iothread2" :> "2000") @@ ("iothread10" :> "10000")

\* the iothreads a VM is found to have after virsh iothreadadd
IothreadSets == {{"iothread2"}, {"iothread2", "iothread10"}}

IothreadFiles(name) ==
    (V1Cpu \o name \o "/cpu.cfs_period_us" :> IothreadPeriod[name] \o "\n")
    @@ (V1Cpu \o name \o "/cpu.cfs_quota_us" :> "-1\n")
    @@ (V2Dir \o name \o "/cpu.max" :> "max " \o IothreadPeriod[name] \o "\n")

\* the virsh_cmd arguments: the three supported ones and one that is not
VirshCmds == {"blkiotune", "memtune", "schedinfo", "domiftune"}

\* what virsh prints for a command
Reports(virsh_cmd) ==
    IF virsh_cmd = "blkiotune"
    THEN { "weight         : 100\n",
           "weight         : 100\ndevice_weight  : \ndevice_read_iops_sec: /dev/sda,500\ndevice_write_bytes_sec: /dev/sda,7,/dev/sdb,9\n",
           "weight         : 100\ndevice_read_iops_sec: /dev/sdx,400,/dev/sda,500\n" }
    ELSE IF virsh_cmd = "memtune"
    THEN { "hard_limit     : unlimited\nsoft_limit     : unlimited\nswap_hard_limit: unlimited\n",
           "hard_limit     : 2097152\nsoft_limit     : unlimited\nswap_hard_limit: unlimited\n",
           "max_memory: unlimited\n",
           "max_memory: 2097152\n",
           "hard_limit     : 1:2\nunknown\n" }
    ELSE IF virsh_cmd = "schedinfo"
    THEN { "Scheduler      : posix\ncpu_shares     : 1024\nvcpu_period    : 100000\nvcpu_quota     : -1\nemulator_period: 100000\nemulator_quota : -1\nglobal_period  : 100000\nglobal_quota   : -1\niothread_period: 100000\niothread_quota : -1\n",
           "Scheduler      : posix\ncpu_shares     : 1024\nvcpu_period    : 100000\nvcpu_quota     : 17592186044415\nemulator_period: 100000\nemulator_quota : -1\nglobal_period  : 100000\nglobal_quota   : 50000\n" }
    ELSE { "" }

(***************************************************************************)
(* The state machine                                                       *)
(***************************************************************************)
\* last while the test holds no outcome; otherwise op names the method called,
\* virsh_cmd, controller and stdout_text what it was given, v2 what
\* is_cgroup_v2_enabled() was, st says whether it returned a value ("ok"),
\* returned None ("none") or raised ("raise"), and value (a dict) or path
\* (a string) is what it returned
NoCall ==
    [op |-> "none", virsh_cmd |-> "", controller |-> "", stdout_text |-> "",
     v2 |-> FALSE, st |-> "ok", value |-> EmptyDict, path |-> ""]

Init ==
    /\ VIRSH_BLKIOTUNE_OUTPUT_MAPPING = VirshBlkiotuneOutputMapping
    /\ CGROUP_V1_BLKIO_FILE_MAPPING = CgroupV1BlkioFileMapping
    /\ CGROUP_V2_BLKIO_FILE_MAPPING = CgroupV2BlkioFileMapping
    /\ CGROUP_V1_MEM_FILE_MAPPING = CgroupV1MemFileMapping
    /\ CGROUP_V2_MEM_FILE_MAPPING = CgroupV2MemFileMapping
    /\ CGROUP_V1_SCHEDINFO_FILE_MAPPING = CgroupV1SchedinfoFileMapping
    /\ CGROUP_V2_SCHEDINFO_FILE_MAPPING = CgroupV2SchedinfoFileMapping
    /\ cgroup_v2 \in BOOLEAN
    /\ bfq \in BOOLEAN
    /\ page_size \in {"4096\n", "65536\n"}
    /\ cgroup_dirs = TRUE
    /\ files = DefaultFiles
    /\ changes = 0
    /\ last = NoCall

\* the test calls get_standardized_cgroup_info(virsh_cmd)
GetStandardizedCgroupInfo(virsh_cmd) ==
    LET r == get_standardized_cgroup_info(cgroup_v2, virsh_cmd)
    IN  /\ last = NoCall
        /\ CGROUP_V1_BLKIO_FILE_MAPPING' = r.table
        /\ last' = [NoCall EXCEPT !.op = "get_standardized_cgroup_info",
                                   !.virsh_cmd = virsh_cmd, !.v2 = cgroup_v2,
                                   !.st = r.ret.st, !.value = r.ret.v]
        /\ UNCHANGED <<const_tables, host>>

\* the test calls get_standardized_virsh_output_by_name(vm_name, virsh_cmd),
\* and virsh prints stdout_text
GetStandardizedVirshOutputByName(virsh_cmd, stdout_text) ==
    LET r == get_standardized_virsh_output_by_name(virsh_cmd, stdout_text)
    IN  /\ last = NoCall
        /\ last' = [NoCall EXCEPT !.op = "get_standardized_virsh_output_by_name",
                                   !.virsh_cmd = virsh_cmd,
                                   !.stdout_text = stdout_text, !.v2 = cgroup_v2,
                                   !.st = r.st, !.value = r.v]
        /\ UNCHANGED <<tables, host>>

\* the controllers get_cgroup_path is called with
Controllers == {"blkio", "memory", "cpu,cpuacct"}

\* the test calls get_cgroup_path(controller)
GetCgroupPath(controller) ==
    LET cgroup_path == get_cgroup_path(cgroup_v2, controller)
    IN  /\ last = NoCall
        /\ last' = [NoCall EXCEPT !.op = "get_cgroup_path",
                                   !.controller = controller, !.v2 = cgroup_v2,
                                   !.st = IF cgroup_path = PyNone THEN "none" ELSE "ok",
                                   !.path = IF cgroup_path = PyNone THEN ""
                                            ELSE cgroup_path]
        /\ UNCHANGED <<tables, host>>

\* the test is done with what the call returned or raised
Done ==
    /\ last # NoCall
    /\ last' = NoCall
    /\ UNCHANGED <<tables, host>>

\* out of band: something is set on the VM and control files change
ChangeHost(change) ==
    /\ changes < MaxChanges
    /\ \E path \in DOMAIN change : files[path] # change[path]
    /\ files' = change @@ files
    /\ changes' = changes + 1
    /\ last' = NoCall
    /\ UNCHANGED <<tables, cgroup_v2, bfq, page_size, cgroup_dirs>>

RECURSIVE AllIothreadFiles(_)
AllIothreadFiles(names) ==
    IF names = {} THEN <<>>
    ELSE LET name == CHOOSE x \in names : TRUE
         IN  IothreadFiles(name) @@ AllIothreadFiles(names \ {name})

\* out of band: virsh iothreadadd gives the VM iothread directories
IothreadAdd(names) ==
    /\ changes < MaxChanges
    /\ \E name \in names : V2Dir \o name \o "/cpu.max" \notin DOMAIN files
    /\ files' = files @@ AllIothreadFiles(names)
    /\ changes' = changes + 1
    /\ last' = NoCall
    /\ UNCHANGED <<tables, cgroup_v2, bfq, page_size, cgroup_dirs>>

\* out of band: the VM is shut off and its cgroup directories go away
RemoveCgroupDirs ==
    /\ changes < MaxChanges
    /\ cgroup_dirs
    /\ cgroup_dirs' = FALSE
    /\ changes' = changes + 1
    /\ last' = NoCall
    /\ UNCHANGED <<tables, cgroup_v2, bfq, page_size, files>>

\* out of band: the disk scheduler is switched
SwitchScheduler ==
    /\ bfq' = ~bfq
    /\ last' = NoCall
    /\ UNCHANGED <<tables, cgroup_v2, page_size, cgroup_dirs, files, changes>>

Next ==
    \/ \E virsh_cmd \in VirshCmds : GetStandardizedCgroupInfo(virsh_cmd)
    \/ \E virsh_cmd \in VirshCmds : \E stdout_text \in Reports(virsh_cmd) :
          GetStandardizedVirshOutputByName(virsh_cmd, stdout_text)
    \/ \E controller \in Controllers : GetCgroupPath(controller)
    \/ Done
    \/ \E change \in HostChanges : ChangeHost(change)
    \/ \E names \in IothreadSets : IothreadAdd(names)
    \/ RemoveCgroupDirs
    \/ SwitchScheduler

Spec == Init /\ [][Next]_vars

(***************************************************************************)
(* Properties                                                              *)
(***************************************************************************)
\* the outcome held is that of a kernel-state read
IsKernelRead == last.op = "get_standardized_cgroup_info"

\* the outcome held is that of a report parse
IsReportParse == last.op = "get_standardized_virsh_output_by_name"

\* the virsh_cmd values the readers and the parser have a branch for
SupportedCmds == {"blkiotune", "memtune", "schedinfo"}

\* two dicts with the same keys and the same value under each
SameDict(a, b) == DOMAIN a = DOMAIN b /\ \A k \in DOMAIN a : a[k] = b[k]

\* the keys of a block-I/O result other than "weight" are its devices
Devices(info) == DOMAIN info \ {"weight"}

\* C1: for each supported virsh_cmd and the same VM configuration, the read on
\* cgroup v1 and the read on cgroup v2 return dicts with the same keys, at the
\* top level and inside every device entry, whatever the scheduler and whether
\* or not there are iothread directories.
C1_VersionTransparency ==
    (IsKernelRead /\ last.virsh_cmd \in SupportedCmds /\ last.st = "ok") =>
        LET other == get_standardized_cgroup_info(~last.v2, last.virsh_cmd).ret
        IN  other.st = "ok" =>
              /\ DOMAIN last.value = DOMAIN other.v
              /\ last.virsh_cmd = "blkiotune" =>
                    \A dev \in Devices(last.value) :
                        DOMAIN last.value[dev] = DOMAIN other.v[dev]

\* what virsh prints for a VM on which no limit was set
UntunedReport(virsh_cmd) ==
    IF virsh_cmd = "blkiotune" THEN "weight         : 100\n"
    ELSE IF virsh_cmd = "memtune"
    THEN "hard_limit     : unlimited\nsoft_limit     : unlimited\nswap_hard_limit: unlimited\n"
    ELSE "Scheduler      : posix\ncpu_shares     : 1024\nvcpu_period    : 100000\nvcpu_quota     : -1\nemulator_period: 100000\nemulator_quota : -1\nglobal_period  : 100000\nglobal_quota   : -1\niothread_period: 100000\niothread_quota : -1\n"

\* C2: for each supported virsh_cmd, the dict parsed from a report of lines
\* "<field>: <value>" has the same keys as the dict the kernel-state read
\* returns for the same VM.  Stated for a VM on which no limit was set and the
\* report virsh prints for it.
C2_KernelReportComparable ==
    (/\ IsReportParse /\ last.virsh_cmd \in SupportedCmds /\ last.st = "ok"
     /\ files = DefaultFiles
     /\ last.stdout_text = UntunedReport(last.virsh_cmd)) =>
        LET kernel == get_standardized_cgroup_info(last.v2, last.virsh_cmd).ret
        IN  kernel.st = "ok" /\ DOMAIN kernel.v = DOMAIN last.value

\* the four limits of a device
DeviceKeys == {"rbps", "wbps", "riops", "wiops"}

\* C3: in every block-I/O result (read on v1, read on v2, report parse) every
\* device entry has the four keys rbps, wbps, riops and wiops, and a key the
\* input did not set is "max": the v1 line "8:0 500" for read IOPS alone gives
\* 8:0 the entry riops = "500", wiops = rbps = wbps = "max".
C3_DeviceEntriesComplete ==
    ((IsKernelRead \/ IsReportParse) /\ last.virsh_cmd = "blkiotune"
       /\ last.st = "ok") =>
        /\ \A dev \in Devices(last.value) :
              DeviceKeys \subseteq DOMAIN last.value[dev]
        /\ (/\ IsKernelRead
            /\ files[V1Blkio \o "blkio.throttle.read_iops_device"] = "8:0 500\n"
            /\ files[V2Dir \o "io.max"] \in
                  {"8:0 riops=500\n", "8:0 rbps=max wbps=max riops=500 wiops=max\n"}) =>
              /\ Devices(last.value) = {"8:0"}
              /\ \A k \in DeviceKeys \cap DOMAIN last.value["8:0"] :
                    last.value["8:0"][k] = IF k = "riops" THEN "500" ELSE "max"

\* the three names a memtune result always has
MemKeys == {"hard_limit", "soft_limit", "swap_hard_limit"}

\* the number a string of at most four digits spells
SmallNat(s) ==
    LET d(i) == IF i <= Len(s) THEN DigitVal[Char(s, i)] ELSE 0
    IN  IF Len(s) = 1 THEN d(1)
        ELSE IF Len(s) = 2 THEN 10 * d(1) + d(2)
        ELSE IF Len(s) = 3 THEN 100 * d(1) + 10 * d(2) + d(3)
        ELSE 1000 * d(1) + 100 * d(2) + 10 * d(3) + d(4)

\* what C4 says becomes of a value of a memtune report
MemValueRule(value, stored) ==
    /\ value = "unlimited" => stored = "max"
    /\ value = "2097152" => stored = "2147483648"
    /\ (IsDigit(value) /\ Len(value) <= 4) => stored = ToString(SmallNat(value) * 1024)
    /\ (value # "unlimited" /\ ~IsDigit(value)) => stored = value

QuotaKeys == {"vcpu_quota", "emulator_quota", "global_quota", "iothread_quota"}

\* the iothread directories of the VM
IothreadDirs == {n \in DOMAIN IothreadPeriod : V2Dir \o n \o "/cpu.max" \in DOMAIN files}

\* the iothread directory that sorts first
FirstIothread == CHOOSE d \in IothreadDirs : \A e \in IothreadDirs \ {d} : StrLess(d, e)

\* the v1 file a scheduling key is read from
V1SchedFile(cg_key) ==
    IF cg_key = "cpu_shares" THEN "/cg/cpu,cpuacct/vm/cpu.shares"
    ELSE IF cg_key = "vcpu_period" THEN V1Cpu \o "vcpu0/cpu.cfs_period_us"
    ELSE IF cg_key = "vcpu_quota" THEN V1Cpu \o "vcpu0/cpu.cfs_quota_us"
    ELSE IF cg_key = "emulator_period" THEN V1Cpu \o "emulator/cpu.cfs_period_us"
    ELSE IF cg_key = "emulator_quota" THEN V1Cpu \o "emulator/cpu.cfs_quota_us"
    ELSE IF cg_key = "global_period" THEN V1Cpu \o "cpu.cfs_period_us"
    ELSE IF cg_key = "global_quota" THEN V1Cpu \o "cpu.cfs_quota_us"
    ELSE IF cg_key = "iothread_period"
    THEN V1Cpu \o FirstIothread \o "/cpu.cfs_period_us"
    ELSE V1Cpu \o FirstIothread \o "/cpu.cfs_quota_us"

\* the v2 file a scheduling key is read from
V2SchedFile(cg_key) ==
    IF cg_key = "cpu_shares" THEN "/cgroup/vm/cpu.weight"
    ELSE IF cg_key \in {"vcpu_period", "vcpu_quota"} THEN V2Dir \o "vcpu0/cpu.max"
    ELSE IF cg_key \in {"emulator_period", "emulator_quota"}
    THEN V2Dir \o "emulator/cpu.max"
    ELSE IF cg_key \in {"global_period", "global_quota"} THEN V2Dir \o "cpu.max"
    ELSE V2Dir \o FirstIothread \o "/cpu.max"

\* the contents that stand for no quota
QuotaSentinels == {"-1", "18446744073709551", "17592186044415"}

\* C5 as stated: in the scheduling read on v1 a quota key whose file holds
\* "-1", "18446744073709551" or "17592186044415" is "max", and every other key
\* (cpu_shares, the period keys) is the trimmed content of its file, whatever
\* that is.
C5_V1SchedAsStated ==
    (IsKernelRead /\ last.virsh_cmd = "schedinfo" /\ ~last.v2 /\ last.st = "ok") =>
        \A cg_key \in DOMAIN last.value :
            LET content == Strip(files[V1SchedFile(cg_key)])
            IN  IF cg_key \in QuotaKeys
                THEN content \in QuotaSentinels => last.value[cg_key] = "max"
                ELSE last.value[cg_key] = content

\* C5: in the scheduling read on v1 a quota key whose file holds "-1",
\* "18446744073709551" or "17592186044415" is "max" and any other quota is the
\* trimmed content; every other key (cpu_shares, the period keys) is the
\* trimmed content of its file, except that the content "-1" is "max" for
\* these keys too.
C5_V1SchedMinusOneForEveryKey ==
    (IsKernelRead /\ last.virsh_cmd = "schedinfo" /\ ~last.v2 /\ last.st = "ok") =>
        \A cg_key \in DOMAIN last.value :
            LET content == Strip(files[V1SchedFile(cg_key)])
            IN  last.value[cg_key] =
                    IF content = "-1" THEN "max"
                    ELSE IF cg_key \in QuotaKeys /\ content \in QuotaSentinels
                    THEN "max"
                    ELSE content

\* a period file holding -1 was read
C5_Witness ==
    /\ IsKernelRead /\ last.virsh_cmd = "schedinfo" /\ ~last.v2 /\ last.st = "ok"
    /\ files[V1Cpu \o "cpu.cfs_period_us"] = "-1\n"
    /\ last.value["global_period"] = "max"
    /\ last.value["global_quota"] = "max"

\* the scheduling keys of the period kind
PeriodKeys == {"vcpu_period", "emulator_period", "global_period", "iothread_period"}

\* C6 as stated: in the scheduling read on v2, of a cpu.max holding
\* "<quota> <period>" a period key is the second token and a quota key the
\* first, a quota token "-1" being returned as "max"; "max 100000" gives
\* global_period = "100000" and global_quota = "max".
C6_V2SchedAsStated ==
    (IsKernelRead /\ last.virsh_cmd = "schedinfo" /\ last.v2 /\ last.st = "ok") =>
        /\ \A cg_key \in DOMAIN last.value \cap PeriodKeys :
              last.value[cg_key] = SplitWS(files[V2SchedFile(cg_key)])[2]
        /\ \A cg_key \in DOMAIN last.value \cap QuotaKeys :
              LET quota == SplitWS(files[V2SchedFile(cg_key)])[1]
              IN  last.value[cg_key] = IF quota = "-1" THEN "max" ELSE quota
        /\ files[V2Dir \o "cpu.max"] = "max 100000\n" =>
              /\ last.value["global_period"] = "100000"
              /\ last.value["global_quota"] = "max"

\* C6: in the scheduling read on v2, of a cpu.max holding "<quota> <period>" a
\* period key is the second token and a quota key the first token as it
\* stands: a quota token "-1" is returned as "-1", and "max" is returned only
\* when the file says max; "max 100000" gives global_period = "100000" and
\* global_quota = "max".
C6_V2SchedTokensAsRead ==
    (IsKernelRead /\ last.virsh_cmd = "schedinfo" /\ last.v2 /\ last.st = "ok") =>
        /\ \A cg_key \in DOMAIN last.value \cap PeriodKeys :
              last.value[cg_key] = SplitWS(files[V2SchedFile(cg_key)])[2]
        /\ \A cg_key \in DOMAIN last.value \cap QuotaKeys :
              last.value[cg_key] = SplitWS(files[V2SchedFile(cg_key)])[1]
        /\ files[V2Dir \o "cpu.max"] = "max 100000\n" =>
              /\ last.value["global_period"] = "100000"
              /\ last.value["global_quota"] = "max"
        /\ files[V2Dir \o "cpu.max"] = "-1 100000\n" =>
              /\ last.value["global_period"] = "100000"
              /\ last.value["global_quota"] = "-1"

\* a cpu.max whose quota token is -1 was read
C6_Witness ==
    /\ IsKernelRead /\ last.virsh_cmd = "schedinfo" /\ last.v2 /\ last.st = "ok"
    /\ files[V2Dir \o "cpu.max"] = "-1 100000\n"
    /\ last.value["global_quota"] = "-1"

\* C7: for a virsh_cmd other than blkiotune, memtune and schedinfo the
\* kernel-state read, on v1 and on v2, returns an empty dict and does not
\* raise, the report parser returns None and does not raise, and neither call
\* changes a table.
C7_UnsupportedCmd ==
    [][(last = NoCall /\ last'.op \in {"get_standardized_cgroup_info",
                                       "get_standardized_virsh_output_by_name"}
          /\ last'.virsh_cmd \notin SupportedCmds) =>
            /\ tables' = tables
            /\ last'.op = "get_standardized_cgroup_info" =>
                  (last'.st = "ok" /\ DOMAIN last'.value = {})
            /\ last'.op = "get_standardized_virsh_output_by_name" =>
                  last'.st = "none"]_vars

\* the parser was given a virsh_cmd it has no branch for
C7_Witness ==
    /\ IsReportParse /\ last.virsh_cmd \notin SupportedCmds /\ last.st = "none"

\* C8: when the cgroup directory of the VM does not exist, get_cgroup_path
\* returns None, and a kernel-state read for blkiotune, memtune or schedinfo,
\* on v1 and on v2, raises: it returns no dict, empty or partial.
C8_NotFoundIsFatal ==
    ~cgroup_dirs =>
        /\ last.op = "get_cgroup_path" => last.st = "none"
        /\ (IsKernelRead /\ last.virsh_cmd \in SupportedCmds) =>
              (last.st = "raise" /\ DOMAIN last.value = {})

\* memtune was read on v2 after the directories went away
C8_Witness ==
    /\ ~cgroup_dirs /\ IsKernelRead /\ last.virsh_cmd = "memtune" /\ last.v2
    /\ last.st = "raise"

\* the directory whose children __get_cpu_subdirs lists
CpuControllerDir(v2) ==
    IF v2 THEN "/cgroup/vm/libvirt" ELSE "/cg/cpu,cpuacct/vm/libvirt"

\* the scheduling keys that need an iothread directory
IothreadKeys == {"iothread_period", "iothread_quota"}

\* the scheduling keys
SchedKeys == {"cpu_shares"} \cup PeriodKeys \cup QuotaKeys

\* C9: when the CPU controller directory has no child with "iothread" in its
\* name, __get_cpu_subdirs returns None and does not raise, and the scheduling
\* read, on v1 and on v2, leaves out iothread_period and iothread_quota and
\* returns every other scheduling key; when there are iothread directories,
\* the one that sorts first is the one read.
C9_MissingIothreads ==
    (IsKernelRead /\ last.virsh_cmd = "schedinfo" /\ cgroup_dirs) =>
        /\ last.st = "ok"
        /\ IF IothreadDirs = {}
           THEN /\ get_cpu_subdirs(CpuControllerDir(last.v2), "iothread") = ReturnNone
                /\ DOMAIN last.value = SchedKeys \ IothreadKeys
           ELSE /\ DOMAIN last.value = SchedKeys
                /\ last.value["iothread_period"] = IothreadPeriod[FirstIothread]
                /\ "iothread10" \in IothreadDirs =>
                      last.value["iothread_period"] = "10000"

\* the scheduling keys were read on a VM without iothreads
C9_Witness ==
    /\ IsKernelRead /\ last.virsh_cmd = "schedinfo" /\ cgroup_dirs
    /\ IothreadDirs = {} /\ last.st = "ok"
    /\ "global_quota" \in DOMAIN last.value
    /\ "iothread_quota" \notin DOMAIN last.value

\* C10: a kernel-state read made again, with the files and the scheduler as
\* the first read found them, returns what the first returned, also when the
\* first read is the one that patched the v1 block-I/O table for a scheduler
\* other than bfq; and the second read leaves the table as the first left it.
C10_ReadsIdempotent ==
    IsKernelRead =>
        LET again == get_standardized_cgroup_info(last.v2, last.virsh_cmd)
        IN  /\ again.ret.st = last.st
            /\ SameDict(again.ret.v, last.value)
            /\ again.table = CGROUP_V1_BLKIO_FILE_MAPPING

\* blkiotune was read on v1 with a scheduler other than bfq, and the table is
\* the patched one
C10_Witness ==
    /\ IsKernelRead /\ last.virsh_cmd = "blkiotune" /\ ~last.v2 /\ ~bfq
    /\ last.st = "ok"
    /\ ItemGet(CGROUP_V1_BLKIO_FILE_MAPPING, "weight") = "blkio.weight"
    /\ "weight_device" \in ItemKeys(CGROUP_V1_BLKIO_FILE_MAPPING)
    /\ "8:0" \in DOMAIN last.value

\* the v1 block-I/O table once patched
PatchedTable == Append([CgroupV1BlkioFileMapping EXCEPT ![1] = <<"weight", "blkio.weight">>],
                       <<"weight_device", "blkio.weight_device">>)

\* the tables other than the v1 block-I/O table are as defined
OtherTablesInitial ==
    /\ VIRSH_BLKIOTUNE_OUTPUT_MAPPING = VirshBlkiotuneOutputMapping
    /\ CGROUP_V2_BLKIO_FILE_MAPPING = CgroupV2BlkioFileMapping
    /\ CGROUP_V1_MEM_FILE_MAPPING = CgroupV1MemFileMapping
    /\ CGROUP_V2_MEM_FILE_MAPPING = CgroupV2MemFileMapping
    /\ CGROUP_V1_SCHEDINFO_FILE_MAPPING = CgroupV1SchedinfoFileMapping
    /\ CGROUP_V2_SCHEDINFO_FILE_MAPPING = CgroupV2SchedinfoFileMapping

\* the step is a v1 read of blkiotune that finds a scheduler other than bfq
NonBfqBlkioRead ==
    /\ last = NoCall
    /\ last'.op = "get_standardized_cgroup_info"
    /\ last'.virsh_cmd = "blkiotune" /\ ~last'.v2 /\ ~bfq

\* the entries of a table whose file name differs from that in another
ChangedEntries(old, new) ==
    {k \in ItemKeys(old) \cap ItemKeys(new) : ItemGet(old, k) # ItemGet(new, k)}

\* C11 as stated: after any sequence of reads and parses every table other
\* than the v1 block-I/O table is as defined, and the v1 block-I/O table
\* changes only in a read that finds a scheduler other than bfq, where the
\* change replaces the file names of two existing entries and leaves the set
\* of keys of the table as it was.
C11_TableFrameAsStated ==
    /\ [] OtherTablesInitial
    /\ [][CGROUP_V1_BLKIO_FILE_MAPPING' # CGROUP_V1_BLKIO_FILE_MAPPING =>
            /\ NonBfqBlkioRead
            /\ ItemKeys(CGROUP_V1_BLKIO_FILE_MAPPING') =
                  ItemKeys(CGROUP_V1_BLKIO_FILE_MAPPING)
            /\ Cardinality(ChangedEntries(CGROUP_V1_BLKIO_FILE_MAPPING,
                                          CGROUP_V1_BLKIO_FILE_MAPPING')) = 2]_vars

\* C11: after any sequence of reads and parses every table other than the v1
\* block-I/O table is as defined, and the v1 block-I/O table changes only in a
\* v1 read of blkiotune that finds a scheduler other than bfq, where the
\* change replaces the file name of the one entry weight by blkio.weight and
\* adds the entry weight_device with the file blkio.weight_device, a key the
\* table did not have; the other entries stay, and the table changes once.
C11_TableFrame ==
    /\ [] OtherTablesInitial
    /\ [] (CGROUP_V1_BLKIO_FILE_MAPPING \in {CgroupV1BlkioFileMapping, PatchedTable})
    /\ [][CGROUP_V1_BLKIO_FILE_MAPPING' # CGROUP_V1_BLKIO_FILE_MAPPING =>
            /\ NonBfqBlkioRead
            /\ CGROUP_V1_BLKIO_FILE_MAPPING = CgroupV1BlkioFileMapping
            /\ ItemKeys(CGROUP_V1_BLKIO_FILE_MAPPING') =
                  ItemKeys(CGROUP_V1_BLKIO_FILE_MAPPING) \cup {"weight_device"}
            /\ "weight_device" \notin ItemKeys(CGROUP_V1_BLKIO_FILE_MAPPING)
            /\ ChangedEntries(CGROUP_V1_BLKIO_FILE_MAPPING,
                              CGROUP_V1_BLKIO_FILE_MAPPING') = {"weight"}
            /\ ItemGet(CGROUP_V1_BLKIO_FILE_MAPPING', "weight") = "blkio.weight"
            /\ ItemGet(CGROUP_V1_BLKIO_FILE_MAPPING', "weight_device") =
                  "blkio.weight_device"]_vars

\* blkiotune was read on v1 with a scheduler other than bfq and no cgroup
\* directory: the read raised and the table is the patched one
C11_Witness ==
    /\ IsKernelRead /\ last.virsh_cmd = "blkiotune" /\ ~last.v2 /\ ~bfq
    /\ ~cgroup_dirs /\ last.st = "raise"
    /\ CGROUP_V1_BLKIO_FILE_MAPPING = PatchedTable
    /\ OtherTablesInitial

\* the text of a line before its first ":" (the whole line when it has none)
BeforeFirstColon(line) ==
    IF Find(line, ":") = 0 THEN line ELSE SubSeq(line, 1, Find(line, ":") - 1)

\* the text of a line after its first ":" (nothing when it has none)
AfterFirstColon(line) ==
    IF Find(line, ":") = 0 THEN "" ELSE SubSeq(line, Find(line, ":") + 1, Len(line))

\* C12: convert_virsh_output_to_dict splits each line of the report at the
\* first ":" only: the field name is the trimmed text before it and the value
\* the whole trimmed rest of the line, further ":" included; a line without
\* ":" maps its trimmed text to the empty string.  Stated for reports in
\* which no field name occurs twice.
C12_SplitAtFirstColon ==
    (IsReportParse /\ last.virsh_cmd \in SupportedCmds) =>
        LET output_list == SplitLines(Strip(last.stdout_text))
            output_dict == convert_virsh_output_to_dict(last.stdout_text)
        IN  /\ ItemKeys(output_dict) =
                  {Strip(BeforeFirstColon(output_list[i])) : i \in 1..Len(output_list)}
            /\ \A i \in 1..Len(output_list) :
                  ItemGet(output_dict, Strip(BeforeFirstColon(output_list[i]))) =
                      Strip(AfterFirstColon(output_list[i]))

\* the device paths a report may name: those of the host and one that does
\* not exist
DevPaths == DOMAIN DevNodes \cup {"/dev/sdx"}

\* the device paths named in a report
NamedPaths(stdout_text) == {path \in DevPaths : Contains(stdout_text, path)}

\* C13: when a field of a blkiotune report names a device path that does not
\* exist, __get_dev_major_minor returns None and the parsed result has no
\* entry for that device, in particular no None key, while the devices that
\* exist have their entries and nothing is raised.
C13_MissingDeviceSkipped ==
    (IsReportParse /\ last.virsh_cmd = "blkiotune") =>
        /\ last.st = "ok"
        /\ \A path \in NamedPaths(last.stdout_text) \ DOMAIN DevNodes :
              get_dev_major_minor(path) = PyNone
        /\ Devices(last.value) =
              {DevNodes[path] : path \in NamedPaths(last.stdout_text) \cap DOMAIN DevNodes}

=============================================================================
